---- MODULE Spec2Model ----
(***************************************************************************)
(* Tool relevance search of onemcp: the External-Rerank store              *)
(* (CodexSearchStore) and the Lexical store (MockSearchStore) of           *)
(* internal/llmsearch/codex_search_store.go, and the static embedding      *)
(* model (GloVeEmbedder) of internal/vectorstore/glove_embedder.go with    *)
(* its download and cache lifecycle.                                       *)
(*                                                                         *)
(* A string is a sequence of one-character strings, so that ToLower,       *)
(* Fields and Contains are computed as the Go library computes them.       *)
(***************************************************************************)
EXTENDS Integers, Sequences, FiniteSets, TLC

VARIABLES
    store,      \* which store was constructed: "mock" or "codex"
    tools,      \* the store's field tools ([]*tools.Tool)
    schemas,    \* CodexSearchStore.schemas ([]byte, nil after construction)
    hist,       \* history: the catalog of the most recent BuildFromTools call, and
                \* the index as the last successful BuildFromTools left it
    last,       \* the most recent call, its arguments and what it returned
    bld,        \* a BuildFromTools call in flight (line-by-line specification)
    srch,       \* a Search call in flight (line-by-line specification)
    cache,      \* the files of the embedder's cache directory
    ctor,       \* NewGloVeEmbedder calls in flight (line-by-line specification)
    emb,        \* a constructed GloVeEmbedder: its dim and its vectors
    glast,      \* the most recent embedder call and what it returned
    ghist       \* history: the presets an embedder was constructed for

searchVars == <<store, tools, schemas, hist, last, bld, srch>>

gloveVars == <<cache, ctor, emb, glast, ghist>>

vars == <<store, tools, schemas, hist, last, bld, srch, cache, ctor, emb, glast, ghist>>

----------------------------------------------------------------------------
(* Bounds *)

MaxCatalog == 3
MaxQueryLen == 3
MaxNames == 2

Max(a, b) == IF a >= b THEN a ELSE b
Min(a, b) == IF a <= b THEN a ELSE b

----------------------------------------------------------------------------
(* Strings *)

QueryAlphabet == {"a", "A", "b", " "}

\* strings.ToLower, on the characters of the model
LowerCh(ch) == IF ch = "A" THEN "a" ELSE ch

ToLower(s) == [i \in 1..Len(s) |-> LowerCh(s[i])]

IsSpace(ch) == ch = " "

RECURSIVE FieldsScan(_, _, _, _)
FieldsScan(s, i, cur, out) ==
    IF i > Len(s)
    THEN IF cur = <<>> THEN out ELSE Append(out, cur)
    ELSE IF IsSpace(s[i])
         THEN FieldsScan(s, i + 1, <<>>, IF cur = <<>> THEN out ELSE Append(out, cur))
         ELSE FieldsScan(s, i + 1, Append(cur, s[i]), out)

\* strings.Fields: the maximal runs of non-space characters, in order
Fields(s) == FieldsScan(s, 1, <<>>, <<>>)

\* strings.Contains: sub occurs in s as a contiguous run
Contains(s, sub) ==
    \E k \in 0..(Len(s) - Len(sub)) : SubSeq(s, k + 1, k + Len(sub)) = sub

----------------------------------------------------------------------------
(* Tools and catalogs *)

\* tools.Tool as the stores use it. InputSchema is an `any`:
\*   "nil"     no schema
\*   "map"     a map[string]any that json.Marshal can encode
\*   "mapbad"  a map[string]any holding a value json.Marshal rejects
\*   "other"   a value of any other shape
Tool(n, c, d, s) == [Name |-> n, Category |-> c, Description |-> d, InputSchema |-> s]

ToolPool ==
    { Tool(<<"A">>, <<>>, <<>>, "nil"),
      Tool(<<"b">>, <<"a">>, <<>>, "map"),
      Tool(<<"c">>, <<"a">>, <<"b", "b">>, "mapbad"),
      Tool(<<"a", "b">>, <<"b">>, <<"a", " ", "b">>, "other") }

\* A catalog: an ordered list of tools with distinct names
Catalogs ==
    UNION { { c \in [1..n -> ToolPool] :
                \A i, j \in 1..n : c[i].Name = c[j].Name => i = j } :
            n \in 0..MaxCatalog }

Queries == UNION { [1..n -> QueryAlphabet] : n \in 0..MaxQueryLen }

TopKs == (0 - 1)..MaxCatalog

----------------------------------------------------------------------------
(* The serialized catalog *)

\* tools.ToolMetadata built by BuildFromTools: the schema is kept only when
\* it is a map[string]any
ToolMetadataOf(tool) ==
    [Name |-> tool.Name, Category |-> tool.Category, Description |-> tool.Description,
     Parameters |-> IF tool.InputSchema \in {"map", "mapbad"}
                    THEN tool.InputSchema ELSE "none"]

ToolSchemasOf(allTools) == [i \in 1..Len(allTools) |-> ToolMetadataOf(allTools[i])]

\* json.Marshal(toolSchemas): an error when a value cannot be encoded, else
\* the array of the encoded metadata, in order
Marshal(toolSchemas) ==
    IF \E i \in 1..Len(toolSchemas) : toolSchemas[i].Parameters = "mapbad"
    THEN [err |-> TRUE, bytes |-> <<>>]
    ELSE [err |-> FALSE, bytes |-> toolSchemas]

NilBytes == [nil |-> TRUE, json |-> <<>>]
Bytes(b) == [nil |-> FALSE, json |-> b]

----------------------------------------------------------------------------
(* Lexical strategy: MockSearchStore.Search *)

\* WordScore with only the heaviest matching field counted
WordScoreFirstField(tool, word) ==
    IF Contains(ToLower(tool.Name), word) THEN 3
    ELSE IF Contains(ToLower(tool.Description), word) THEN 2
    ELSE IF Contains(ToLower(tool.Category), word) THEN 1
    ELSE 0

\* One query word against one tool: name 3, description 2, category 1
WordScore(tool, word) ==
    (IF Contains(ToLower(tool.Name), word) THEN 3 ELSE 0)
    + (IF Contains(ToLower(tool.Description), word) THEN 2 ELSE 0)
    + (IF Contains(ToLower(tool.Category), word) THEN 1 ELSE 0)

RECURSIVE ScoreWords(_, _, _)
ScoreWords(tool, queryWords, i) ==
    IF i > Len(queryWords) THEN 0
    ELSE WordScore(tool, queryWords[i]) + ScoreWords(tool, queryWords, i + 1)

\* The score of a tool: the loop over queryWords
ToolScore(tool, query) == ScoreWords(tool, Fields(ToLower(query)), 1)

\* Eligible with the empty-query case lost
EligibleOnlyPositive(score, query) == score > 0

\* The test that appends a tool to scored
Eligible(score, query) == score > 0 \/ query = <<>>

RECURSIVE ScoredFrom(_, _, _)
ScoredFrom(ts, query, i) ==
    IF i > Len(ts) THEN <<>>
    ELSE LET score == ToolScore(ts[i], query)
             rest == ScoredFrom(ts, query, i + 1)
         IN IF Eligible(score, query)
            THEN <<[tool |-> ts[i], score |-> score]>> \o rest
            ELSE rest

\* scored, before sorting: the eligible tools in catalog order
Scored(ts, query) == ScoredFrom(ts, query, 1)

Swap(s, i, j) == [s EXCEPT ![i] = s[j], ![j] = s[i]]

\* Outranks with the comparison turned round
OutranksAscending(later, earlier) == later.score < earlier.score

\* The comparison of the sort: the later element moves up when its score is higher
Outranks(later, earlier) == later.score > earlier.score

RECURSIVE SortInner(_, _, _)
SortInner(s, i, j) ==
    IF j > Len(s) THEN s
    ELSE SortInner(IF Outranks(s[j], s[i]) THEN Swap(s, i, j) ELSE s, i, j + 1)

RECURSIVE SortOuter(_, _)
SortOuter(s, i) ==
    IF i > Len(s) THEN s ELSE SortOuter(SortInner(s, i, i + 1), i + 1)

\* The two nested loops over scored (positions counted from 1)
SortByScore(s) == SortOuter(s, 1)

\* How many entries the result loop copies: i < len(scored) && i < topK
TakeCount(n, topK) == Min(n, Max(topK, 0))

\* The result loop
TopResults(sorted, topK) ==
    [i \in 1..TakeCount(Len(sorted), topK) |-> sorted[i].tool]

\* IndexEmpty with the early return lost
IndexEmptyNever(ts) == FALSE

\* The index holds no tools: the early return of both Search methods
IndexEmpty(ts) == Len(ts) = 0

\* MockSearchStore.Search as a function of the retained list and the
\* arguments. make([]*tools.Tool, 0, topK) panics when topK is negative.
MockSearchOutcome(ts, query, topK) ==
    IF IndexEmpty(ts) THEN [status |-> "ok", result |-> <<>>, scored |-> <<>>]
    ELSE LET sorted == SortByScore(Scored(ts, query))
         IN IF topK < 0
            THEN [status |-> "panic", result |-> <<>>, scored |-> sorted]
            ELSE [status |-> "ok", result |-> TopResults(sorted, topK),
                  scored |-> sorted]

----------------------------------------------------------------------------
(* External-Rerank strategy: CodexSearchStore.Search *)

\* Names the collaborator may answer with: two names of the pool and one
\* that no tool carries (names are compared exactly, case included)
NamePool == { <<"A">>, <<"b">>, <<"a">> }

NameLists(n) == UNION { [1..m -> NamePool] : m \in 0..n }

\* CodexSearcher.SearchTools(query, schemas, topK): an error, or an ordered
\* list of up to topK names, not necessarily names of the catalog
SearchToolsAnswers(query, payload, topK) ==
    { [err |-> TRUE, names |-> <<>>] }
    \cup { [err |-> FALSE, names |-> ns] : ns \in NameLists(Min(MaxNames, Max(topK, 0))) }

HasName(ts, name) == \E i \in 1..Len(ts) : ts[i].Name = name

\* toolMap[name]: the loop overwrites, so the last tool of that name stays
ToolMapAt(ts, name) ==
    ts[CHOOSE i \in 1..Len(ts) :
          /\ ts[i].Name = name
          /\ \A j \in 1..Len(ts) : ts[j].Name = name => j <= i]

RECURSIVE MapNamesFrom(_, _, _)
MapNamesFrom(ts, toolNames, i) ==
    IF i > Len(toolNames) THEN <<>>
    ELSE LET rest == MapNamesFrom(ts, toolNames, i + 1)
         IN IF HasName(ts, toolNames[i])
            THEN <<ToolMapAt(ts, toolNames[i])>> \o rest
            ELSE rest

\* MapNames looping over the catalog instead of over toolNames
MapNamesCatalogOrder(ts, toolNames) ==
    SelectSeq(ts, LAMBDA t : \E i \in 1..Len(toolNames) : toolNames[i] = t.Name)

\* The loop over toolNames: the tools of the names toolMap knows, in order
MapNames(ts, toolNames) == MapNamesFrom(ts, toolNames, 1)

----------------------------------------------------------------------------
(* State *)

NoCall ==
    [op |-> "none", arg |-> <<>>, query |-> <<>>, topK |-> 0, status |-> "none",
     result |-> <<>>, invoked |-> FALSE, answer |-> "none", names |-> <<>>,
     payload |-> NilBytes, seen |-> <<>>, scored |-> <<>>]

BuildCall(c, status) ==
    [NoCall EXCEPT !.op = "BuildFromTools", !.arg = c, !.status = status]

SearchCall(q, k, status, result) ==
    [NoCall EXCEPT !.op = "Search", !.query = q, !.topK = k, !.status = status,
                   !.result = result]

\* No BuildFromTools call in flight
BldIdle == [pc |-> "idle", arg |-> <<>>]

\* No Search call in flight
SrchIdle == [pc |-> "idle", query |-> <<>>, topK |-> 0, payload |-> NilBytes,
             names |-> <<>>]

\* NewCodexSearchStore / NewMockSearchStore
Init ==
    /\ store \in {"mock", "codex"}
    /\ tools = <<>>
    /\ schemas = NilBytes
    /\ hist = [arg |-> <<>>, tools |-> <<>>, schemas |-> NilBytes]
    /\ last = NoCall
    /\ bld = BldIdle
    /\ srch = SrchIdle
    /\ cache = <<>>
    /\ ctor = <<>>
    /\ emb = <<>>
    /\ glast = <<>>
    /\ ghist = {}

\* GetToolCount of both stores
GetToolCount == Len(tools)

----------------------------------------------------------------------------
(* Calls, each as one step *)

MockBuildFromTools(allTools) ==
    /\ store = "mock"
    /\ last = NoCall
    /\ tools' = allTools
    /\ hist' = [arg |-> allTools, tools |-> allTools, schemas |-> schemas]
    /\ last' = BuildCall(allTools, "ok")
    /\ UNCHANGED <<store, schemas, bld, srch>>
    /\ UNCHANGED gloveVars

\* MockSearch sorting s.tools itself instead of the local scored
MockSearchSortsInPlace(query, topK) ==
    /\ store = "mock"
    /\ last = NoCall
    /\ LET out == MockSearchOutcome(tools, query, topK)
           all == [i \in 1..Len(tools) |->
                     [tool |-> tools[i], score |-> ToolScore(tools[i], query)]]
       IN /\ last' = SearchCall(query, topK, out.status, out.result)
          /\ tools' = [i \in 1..Len(tools) |-> SortByScore(all)[i].tool]
    /\ UNCHANGED <<store, schemas, hist, bld, srch>>
    /\ UNCHANGED gloveVars

MockSearch(query, topK) ==
    /\ store = "mock"
    /\ last = NoCall
    /\ LET out == MockSearchOutcome(tools, query, topK)
       IN last' = [SearchCall(query, topK, out.status, out.result)
                   EXCEPT !.scored = out.scored]
    /\ UNCHANGED <<store, tools, schemas, hist, bld, srch>>
    /\ UNCHANGED gloveVars

CodexBuildFromTools(allTools) ==
    /\ store = "codex"
    /\ last = NoCall
    /\ tools' = allTools
    /\ LET m == Marshal(ToolSchemasOf(allTools))
       IN IF m.err
          THEN /\ last' = BuildCall(allTools, "error")
               /\ hist' = [hist EXCEPT !.arg = allTools]
               /\ UNCHANGED schemas
          ELSE /\ schemas' = Bytes(m.bytes)
               /\ hist' = [arg |-> allTools, tools |-> allTools,
                           schemas |-> Bytes(m.bytes)]
               /\ last' = BuildCall(allTools, "ok")
    /\ UNCHANGED <<store, bld, srch>>
    /\ UNCHANGED gloveVars

CodexSearch(query, topK) ==
    /\ store = "codex"
    /\ last = NoCall
    /\ IF IndexEmpty(tools)
       THEN last' = SearchCall(query, topK, "ok", <<>>)
       ELSE \E ans \in SearchToolsAnswers(query, schemas, topK) :
              last' = [SearchCall(query, topK,
                                  IF ans.err THEN "error" ELSE "ok",
                                  IF ans.err THEN <<>> ELSE MapNames(tools, ans.names))
                       EXCEPT !.invoked = TRUE,
                              !.answer = IF ans.err THEN "error" ELSE "names",
                              !.names = ans.names,
                              !.payload = schemas, !.seen = tools]
    /\ UNCHANGED <<store, tools, schemas, hist, bld, srch>>
    /\ UNCHANGED gloveVars

\* The caller takes what the call returned; the store is ready for the next call
Consume ==
    /\ last # NoCall
    /\ last' = NoCall
    /\ UNCHANGED <<store, tools, schemas, hist, bld, srch>>
    /\ UNCHANGED gloveVars

CodexQueries == { <<"a">> }

Next ==
    \/ \E c \in Catalogs : MockBuildFromTools(c)
    \/ \E q \in Queries, k \in TopKs : MockSearch(q, k)
    \/ \E c \in Catalogs : CodexBuildFromTools(c)
    \/ \E q \in CodexQueries, k \in TopKs : CodexSearch(q, k)
    \/ Consume

Spec == Init /\ [][Next]_vars

----------------------------------------------------------------------------
(* CodexSearchStore with one BuildFromTools and one Search running          *)
(* concurrently, each advancing one access of the shared fields at a time.  *)
(* The store takes no lock; every read and write of a field is taken as     *)
(* one step, the most favourable outcome of the unsynchronized accesses.    *)

\* Catalogs json.Marshal accepts, of at most two tools
ConcCatalogs ==
    { c \in Catalogs : Len(c) <= 2 /\ ~Marshal(ToolSchemasOf(c)).err }

ConcTopKs == { 0, 1 }

InitConc == Init /\ store = "codex"

\* BuildFromTools, line 32: s.tools = allTools
BuildEnter(allTools) ==
    /\ last = NoCall
    /\ bld.pc = "idle"
    /\ tools' = allTools
    /\ bld' = [pc |-> "marshal", arg |-> allTools]
    /\ UNCHANGED <<store, schemas, hist, last, srch>>
    /\ UNCHANGED gloveVars

\* BuildFromTools, lines 35-63: the metadata, json.Marshal, and on success
\* s.schemas = schemas
BuildFinish ==
    /\ last = NoCall
    /\ bld.pc = "marshal"
    /\ LET m == Marshal(ToolSchemasOf(bld.arg))
       IN IF m.err
          THEN /\ last' = BuildCall(bld.arg, "error")
               /\ hist' = [hist EXCEPT !.arg = bld.arg]
               /\ UNCHANGED schemas
          ELSE /\ schemas' = Bytes(m.bytes)
               /\ hist' = [arg |-> bld.arg, tools |-> bld.arg,
                           schemas |-> Bytes(m.bytes)]
               /\ last' = BuildCall(bld.arg, "ok")
    /\ bld' = BldIdle
    /\ UNCHANGED <<store, tools, srch>>
    /\ UNCHANGED gloveVars

\* Search, lines 68-70: len(s.tools)
SearchEnter(query, topK) ==
    /\ last = NoCall
    /\ srch.pc = "idle"
    /\ IF IndexEmpty(tools)
       THEN /\ last' = SearchCall(query, topK, "ok", <<>>)
            /\ UNCHANGED srch
       ELSE /\ srch' = [SrchIdle EXCEPT !.pc = "ask", !.query = query, !.topK = topK]
            /\ UNCHANGED last
    /\ UNCHANGED <<store, tools, schemas, hist, bld>>
    /\ UNCHANGED gloveVars

\* Search, lines 73-76: s.schemas is read and handed to the collaborator
SearchAsk ==
    /\ last = NoCall
    /\ srch.pc = "ask"
    /\ \E ans \in SearchToolsAnswers(srch.query, schemas, srch.topK) :
         IF ans.err
         THEN /\ last' = [SearchCall(srch.query, srch.topK, "error", <<>>)
                          EXCEPT !.invoked = TRUE, !.answer = "error",
                                 !.payload = schemas]
              /\ srch' = SrchIdle
         ELSE /\ srch' = [srch EXCEPT !.pc = "map", !.payload = schemas,
                                      !.names = ans.names]
              /\ UNCHANGED last
    /\ UNCHANGED <<store, tools, schemas, hist, bld>>
    /\ UNCHANGED gloveVars

\* Search, lines 79-93: s.tools is read again to map the names
SearchMap ==
    /\ last = NoCall
    /\ srch.pc = "map"
    /\ last' = [SearchCall(srch.query, srch.topK, "ok", MapNames(tools, srch.names))
                EXCEPT !.invoked = TRUE, !.answer = "names", !.names = srch.names,
                       !.payload = srch.payload, !.seen = tools]
    /\ srch' = SrchIdle
    /\ UNCHANGED <<store, tools, schemas, hist, bld>>
    /\ UNCHANGED gloveVars

NextConc ==
    \/ \E c \in ConcCatalogs : BuildEnter(c)
    \/ BuildFinish
    \/ \E k \in ConcTopKs : SearchEnter(<<"a">>, k)
    \/ SearchAsk
    \/ SearchMap
    \/ Consume

SpecConc == InitConc /\ [][NextConc]_vars

----------------------------------------------------------------------------
(* Static embedding model: GloVeEmbedder of                                 *)
(* internal/vectorstore/glove_embedder.go.                                  *)
(*                                                                          *)
(* A vector file is a sequence of lines. A vector is held exactly: the      *)
(* record [num, den, unit] stands for the components num[i] / den, divided  *)
(* by the vector's Euclidean norm when unit is TRUE; den = 0 is the NaN of  *)
(* a floating-point 0/0.                                                    *)

MaxDim == 2
MaxLines == 2
MaxTextLen == 2

\* the dimensions an embedder is constructed with, scaled down from the
\* 50..300 of the preset table
Dims == 1..MaxDim

LowerLetters == {"a", "b", "c", "d", "e", "f", "g", "h", "i", "j", "k", "l", "m", "n", "o", "p", "q", "r", "s", "t", "u", "v", "w", "x", "y", "z"}

DigitChars == <<"0", "1", "2", "3", "4", "5", "6", "7", "8", "9">>

IsDigit(ch) == \E d \in 1..Len(DigitChars) : DigitChars[d] = ch

DigitVal(ch) == (CHOOSE d \in 1..Len(DigitChars) : DigitChars[d] = ch) - 1

RECURSIVE DecimalVal(_, _, _)
DecimalVal(s, i, acc) ==
    IF i > Len(s) THEN acc ELSE DecimalVal(s, i + 1, 10 * acc + DigitVal(s[i]))

\* strconv.ParseFloat on a field: a run of decimal digits is its value, any
\* other field of the lines below is one ParseFloat rejects
ParseFloat(s) ==
    IF s # <<>> /\ \A i \in 1..Len(s) : IsDigit(s[i])
    THEN [ok |-> TRUE, val |-> DecimalVal(s, 1, 0)]
    ELSE [ok |-> FALSE, val |-> 0]

LinePool ==
    { <<"a", "b", " ", "1", " ", "2">>,
      <<"a", "b", " ", "1">>,
      <<"b", "a", " ", "x", " ", "2">>,
      <<"a", "b">>,
      <<"b", "e", " ", "2", " ", "1">>,
      <<>> }

RECURSIVE SeqsUpTo(_, _)
SeqsUpTo(S, n) ==
    IF n = 0 THEN { <<>> }
    ELSE LET shorter == SeqsUpTo(S, n - 1)
         IN shorter \cup { Append(s, x) : s \in { t \in shorter : Len(t) = n - 1 }, x \in S }

\* the vector files: up to MaxLines lines
Files == SeqsUpTo(LinePool, MaxLines)

\* vec := make([]float32, len(parts)-1), a field that fails to parse leaves 0
VecOfFields(parts) ==
    [i \in 1..(Len(parts) - 1) |->
        LET p == ParseFloat(parts[i + 1]) IN IF p.ok THEN p.val ELSE 0]

\* vectors[word] = vec
MapPut(vectors, word, vec) ==
    [w \in (DOMAIN vectors) \cup {word} |-> IF w = word THEN vec ELSE vectors[w]]

\* if len(parts) < 2 { continue }
SkipLine(parts) == Len(parts) < 2

RECURSIVE LoadScan(_, _, _)
LoadScan(lines, i, vectors) ==
    IF i > Len(lines) THEN vectors
    ELSE LET parts == Fields(lines[i])
         IN IF SkipLine(parts)
            THEN LoadScan(lines, i + 1, vectors)
            ELSE LoadScan(lines, i + 1, MapPut(vectors, parts[1], VecOfFields(parts)))

\* loadGloVeVectors on a file that opens and whose lines fit the scanner
loadGloVeVectors(lines) == LoadScan(lines, 1, <<>>)

\* a call that returns an error returns no embedder
NoEmbedder == [dim |-> 0, vectors |-> <<>>, nil |-> TRUE]

\* the embedder NewGloVeEmbedder returns for a dimension and a loaded file
Embedder(dim, lines) ==
    [dim |-> dim, vectors |-> loadGloVeVectors(lines), nil |-> FALSE]

stopWords ==
    { <<"a">>, <<"a", "n">>, <<"a", "n", "d">>, <<"a", "r", "e">>,
      <<"a", "s">>, <<"a", "t">>, <<"b", "e">>, <<"b", "y">>,
      <<"f", "o", "r">>, <<"f", "r", "o", "m">>, <<"h", "a", "s">>, <<"h", "e">>,
      <<"i", "n">>, <<"i", "s">>, <<"i", "t">>, <<"i", "t", "s">>,
      <<"o", "f">>, <<"o", "n">>, <<"t", "h", "a", "t">>, <<"t", "h", "e">>,
      <<"t", "h", "i", "s">>, <<"t", "o">>, <<"w", "a", "s">>, <<"w", "i", "l", "l">>,
      <<"w", "i", "t", "h">> }

\* the separator of strings.FieldsFunc in tokenize
IsSeparator(ch) == ~(ch \in LowerLetters \/ IsDigit(ch))

RECURSIVE FieldsFuncScan(_, _, _, _)
FieldsFuncScan(s, i, cur, out) ==
    IF i > Len(s)
    THEN IF cur = <<>> THEN out ELSE Append(out, cur)
    ELSE IF IsSeparator(s[i])
         THEN FieldsFuncScan(s, i + 1, <<>>, IF cur = <<>> THEN out ELSE Append(out, cur))
         ELSE FieldsFuncScan(s, i + 1, Append(cur, s[i]), out)

FieldsFunc(s) == FieldsFuncScan(s, 1, <<>>, <<>>)

\* len(word) > 1 && !stopWords[word]
KeepWord(word) == Len(word) > 1 /\ word \notin stopWords

tokenize(text) == SelectSeq(FieldsFunc(ToLower(text)), KeepWord)

\* make([]float32, dim)
ZeroVector(dim) == [num |-> [i \in 1..dim |-> 0], den |-> 1, unit |-> FALSE]

IsZeroVector(v) == v.den # 0 /\ \A i \in 1..Len(v.num) : v.num[i] = 0

\* for i := 0; i < e.dim; i++ { embedding[i] += vec[i] }: vec[i] is out of
\* range, and the call panics, when vec is shorter than dim
RECURSIVE Accumulate(_, _, _, _, _)
Accumulate(e, words, k, sum, count) ==
    IF k > Len(words) THEN [panic |-> FALSE, sum |-> sum, count |-> count]
    ELSE IF words[k] \in DOMAIN e.vectors
         THEN LET vec == e.vectors[words[k]]
              IN IF Len(vec) < e.dim
                 THEN [panic |-> TRUE, sum |-> sum, count |-> count]
                 ELSE Accumulate(e, words, k + 1,
                                 [i \in 1..e.dim |-> sum[i] + vec[i]], count + 1)
         ELSE Accumulate(e, words, k + 1, sum, count)

\* embedding[i] /= float32(count), for every count
AverageUnguarded(sum, count) == [num |-> sum, den |-> count, unit |-> FALSE]

\* if count > 0 { embedding[i] /= float32(count) }
Average(sum, count) ==
    IF count > 0 THEN [num |-> sum, den |-> count, unit |-> FALSE]
    ELSE [num |-> sum, den |-> 1, unit |-> FALSE]

RECURSIVE SumSquares(_, _)
SumSquares(num, i) ==
    IF i > Len(num) THEN 0 ELSE num[i] * num[i] + SumSquares(num, i + 1)

\* L2 normalization: divide by the Euclidean norm if nonzero, else unchanged
normalize(v) ==
    IF v.den = 0 \/ SumSquares(v.num, 1) # 0 THEN [v EXCEPT !.unit = TRUE] ELSE v

\* GloVeEmbedder.Generate; found is the number of tokens that had a vector
GenerateOutcome(e, text) ==
    LET words == tokenize(text)
    IN IF Len(words) = 0
       THEN [status |-> "ok", vec |-> ZeroVector(e.dim), words |-> words, found |-> 0]
       ELSE LET acc == Accumulate(e, words, 1, ZeroVector(e.dim).num, 0)
            IN IF acc.panic
               THEN [status |-> "panic", vec |-> <<>>, words |-> words,
                     found |-> acc.count]
               ELSE [status |-> "ok", vec |-> normalize(Average(acc.sum, acc.count)),
                     words |-> words, found |-> acc.count]

Dimension(e) == e.dim

GetVocabularySize(e) == Cardinality(DOMAIN e.vectors)

TextAlphabet == {"a", "A", "b", "e", "-"}

LongTexts ==
    { <<"a", "b", " ", "b", "a">>,
      <<"A", "b", "-", "b", "e">>,
      <<"a", "b", " ", "a", "b">>,
      <<"b", "b", " ", "a", "b">> }

Texts == SeqsUpTo(TextAlphabet, MaxTextLen) \cup LongTexts

----------------------------------------------------------------------------
(* The cache lifecycle: NewGloVeEmbedder, downloadAndExtractGloVe and       *)
(* extractFileFromZip. A file of the cache directory is absent or holds a   *)
(* sequence of lines; every call below takes the first step that fails, of  *)
(* the steps that can fail, as an input.                                    *)

StatusOK == 200

Statuses == {StatusOK, 404}

gloveModels ==
    [m \in {"6B.50d", "6B.100d", "6B.200d", "6B.300d"} |->
        CASE m = "6B.50d" -> [filename |-> "glove.6B.50d.txt", dim |-> 50]
          [] m = "6B.100d" -> [filename |-> "glove.6B.100d.txt", dim |-> 100]
          [] m = "6B.200d" -> [filename |-> "glove.6B.200d.txt", dim |-> 200]
          [] m = "6B.300d" -> [filename |-> "glove.6B.300d.txt", dim |-> 300]]

FileNames == { gloveModels[m].filename : m \in DOMAIN gloveModels }

\* the model names the callers pass: two presets and a name not in the table
ModelNames == {"6B.50d", "6B.100d", "6B.25d"}

\* the lines of a preset's member of the published archive
MemberLines == << <<"a", "b", " ", "1", " ", "2">>, <<"b", "a", " ", "2", " ", "1">> >>

\* the members of the archive a download answers with
Archives ==
    { {}, {"glove.6B.50d.txt"}, {"glove.6B.100d.txt"}, FileNames }

Faults ==
    {"none", "mkdir", "stat", "get", "zipcreate", "zipcopy", "zipopen",
     "memberopen", "destcreate", "destcopy", "load"}

AbsentFile == [exists |-> FALSE, lines |-> <<>>]

FileOf(lines) == [exists |-> TRUE, lines |-> lines]

NoZip == [state |-> "absent", members |-> {}]

WithFile(c, name, lines) == [c EXCEPT !.files[name] = FileOf(lines)]

WithZip(c, state, members) == [c EXCEPT !.zip = [state |-> state, members |-> members]]

\* the download is taken for every construction
NeedsDownloadAlways(c, target) == TRUE

\* _, err := os.Stat(modelPath); os.IsNotExist(err)
NeedsDownload(c, target) == ~c.files[target].exists

\* every status is taken as a success
StatusNeverFails(status) == FALSE

\* resp.StatusCode != http.StatusOK
StatusFails(status) == status # StatusOK

\* extractFileFromZip: the archive is opened, the member is looked up by
\* name, opened, and copied into a destination that os.Create has truncated;
\* a copy that fails has written the first k lines
extractFileFromZip(c, target, fault, k) ==
    IF fault = "zipopen" \/ c.zip.state # "complete"
    THEN [err |-> "zipopen", cache |-> c]
    ELSE IF target \notin c.zip.members
    THEN [err |-> "member", cache |-> c]
    ELSE IF fault = "memberopen"
    THEN [err |-> "memberopen", cache |-> c]
    ELSE IF fault = "destcreate"
    THEN [err |-> "destcreate", cache |-> c]
    ELSE IF fault = "destcopy"
    THEN [err |-> "destcopy", cache |-> WithFile(c, target, SubSeq(MemberLines, 1, k))]
    ELSE [err |-> "", cache |-> WithFile(c, target, MemberLines)]

\* downloadAndExtractGloVe: http.Get, the status check, glove.zip created
\* and written, the member extracted, glove.zip removed
downloadAndExtractGloVe(c, target, resp, fault, k) ==
    IF fault = "get"
    THEN [err |-> "get", cache |-> c]
    ELSE IF StatusFails(resp.status)
    THEN [err |-> "status", cache |-> c]
    ELSE IF fault = "zipcreate"
    THEN [err |-> "zipcreate", cache |-> c]
    ELSE IF fault = "zipcopy"
    THEN [err |-> "zipcopy", cache |-> WithZip(c, "partial", resp.archive)]
    ELSE LET x == extractFileFromZip(WithZip(c, "complete", resp.archive),
                                     target, fault, k)
         IN IF x.err # ""
            THEN x
            ELSE [err |-> "", cache |-> [x.cache EXCEPT !.zip = NoZip]]

\* NewGloVeEmbedder: the embedder or the error, the cache as the call leaves
\* it, and the number of http.Get the call made
NewGloVeOutcome(c, modelName, resp, fault, k) ==
    IF modelName \notin DOMAIN gloveModels
    THEN [err |-> "unknown", cache |-> c, fetched |-> 0, emb |-> NoEmbedder]
    ELSE IF fault = "mkdir"
    THEN [err |-> "mkdir", cache |-> c, fetched |-> 0, emb |-> NoEmbedder]
    ELSE LET cfg == gloveModels[modelName]
             download == fault # "stat" /\ NeedsDownload(c, cfg.filename)
             dl == IF download
                   THEN downloadAndExtractGloVe(c, cfg.filename, resp, fault, k)
                   ELSE [err |-> "", cache |-> c]
             fetched == IF download THEN 1 ELSE 0
         IN IF dl.err # ""
            THEN [err |-> dl.err, cache |-> dl.cache, fetched |-> fetched,
                  emb |-> NoEmbedder]
            ELSE IF fault = "load" \/ ~dl.cache.files[cfg.filename].exists
            THEN [err |-> "load", cache |-> dl.cache, fetched |-> fetched,
                  emb |-> NoEmbedder]
            ELSE [err |-> "", cache |-> dl.cache, fetched |-> fetched,
                  emb |-> Embedder(cfg.dim, dl.cache.files[cfg.filename].lines)]

----------------------------------------------------------------------------
(* Embedder calls, each as one step *)

\* the search stores take no part in the embedder's specifications
SearchUnused ==
    /\ store = "none"
    /\ tools = <<>>
    /\ schemas = NilBytes
    /\ hist = [arg |-> <<>>, tools |-> <<>>, schemas |-> NilBytes]
    /\ last = NoCall
    /\ bld = BldIdle
    /\ srch = SrchIdle

NoGloveCall == [op |-> "none"]

\* the target files of the presets the callers name
CalledFiles ==
    { gloveModels[m].filename : m \in ModelNames \cap DOMAIN gloveModels }

\* the cache directory before the first construction: no archive, and each
\* called preset's file not yet there or put there whole
InitCache ==
    /\ SearchUnused
    /\ \E present \in SUBSET CalledFiles :
          cache = [zip |-> NoZip,
                   files |-> [f \in FileNames |->
                                 IF f \in present THEN FileOf(MemberLines)
                                 ELSE AbsentFile]]
    /\ ctor = <<>>
    /\ emb = NoEmbedder
    /\ glast = NoGloveCall
    /\ ghist = {}

\* one call of NewGloVeEmbedder, start to return
New(modelName, resp, fault, k) ==
    /\ glast = NoGloveCall
    /\ LET out == NewGloVeOutcome(cache, modelName, resp, fault, k)
       IN /\ cache' = out.cache
          /\ emb' = out.emb
          /\ ghist' = IF out.err = "" THEN ghist \cup {modelName} ELSE ghist
          /\ glast' = [op |-> "New", model |-> modelName, status |-> resp.status,
                       archive |-> resp.archive, fault |-> fault,
                       present |-> /\ modelName \in DOMAIN gloveModels
                                   /\ cache.files[gloveModels[modelName].filename].exists,
                       prior |-> modelName \in ghist,
                       err |-> out.err, fetched |-> out.fetched]
    /\ UNCHANGED ctor
    /\ UNCHANGED searchVars

\* the caller takes the returned value; the next call starts from here
GloveConsume ==
    /\ glast # NoGloveCall
    /\ glast' = NoGloveCall
    /\ UNCHANGED <<cache, ctor, emb, ghist>>
    /\ UNCHANGED searchVars

NextCache ==
    \/ \E modelName \in ModelNames, status \in Statuses, archive \in Archives,
          fault \in Faults, k \in 0..(Len(MemberLines) - 1) :
          New(modelName, [status |-> status, archive |-> archive], fault, k)
    \/ GloveConsume

SpecCache == InitCache /\ [][NextCache]_vars

\* an embedder over each dimension and each vector file
InitGenerate ==
    /\ SearchUnused
    /\ cache = <<>>
    /\ ctor = <<>>
    /\ \E dim \in Dims, lines \in Files : emb = Embedder(dim, lines)
    /\ glast = NoGloveCall
    /\ ghist = {}

\* one call of Generate
Generate(text) ==
    /\ glast = NoGloveCall
    /\ LET out == GenerateOutcome(emb, text)
       IN glast' = [op |-> "Generate", text |-> text, status |-> out.status,
                    vec |-> out.vec, words |-> out.words, found |-> out.found]
    /\ UNCHANGED <<cache, ctor, emb, ghist>>
    /\ UNCHANGED searchVars

NextGenerate ==
    \/ \E text \in Texts : Generate(text)
    \/ GloveConsume

SpecGenerate == InitGenerate /\ [][NextGenerate]_vars

----------------------------------------------------------------------------
(* Two callers constructing the embedder of one preset over one cache       *)
(* directory at the same time, every file operation one step. No step       *)
(* fails by itself and the download answers with the whole archive: what    *)
(* goes wrong here comes from the interleaving alone.                       *)

Callers == {"c1", "c2"}

ConcModel == "6B.50d"

ConcTarget == gloveModels[ConcModel].filename

CtorAt(pc) == [pc |-> pc, fetched |-> 0, err |-> "", raced |-> FALSE]

InitCacheConc ==
    /\ SearchUnused
    /\ cache = [zip |-> NoZip, files |-> [f \in FileNames |-> AbsentFile]]
    /\ ctor = [c \in Callers |-> CtorAt("stat")]
    /\ emb = [c \in Callers |-> NoEmbedder]
    /\ glast = NoGloveCall
    /\ ghist = {}

\* another caller has created the target and has not finished copying into it
BeingWritten(c) == \E o \in Callers \ {c} : ctor[o].pc = "destcopy"

Goto(c, pc) == ctor' = [ctor EXCEPT ![c].pc = pc]

Fail(c, err) == ctor' = [ctor EXCEPT ![c].pc = "done", ![c].err = err]

\* os.Stat(modelPath)
CtorStat(c) ==
    /\ ctor[c].pc = "stat"
    /\ IF NeedsDownload(cache, ConcTarget) THEN Goto(c, "get") ELSE Goto(c, "load")
    /\ UNCHANGED <<cache, emb, glast, ghist>>
    /\ UNCHANGED searchVars

\* http.Get(url) and the status check
CtorGet(c) ==
    /\ ctor[c].pc = "get"
    /\ ctor' = [ctor EXCEPT ![c].pc = "zipcreate", ![c].fetched = 1]
    /\ UNCHANGED <<cache, emb, glast, ghist>>
    /\ UNCHANGED searchVars

\* os.Create(zipPath): the archive file is there and empty
CtorZipCreate(c) ==
    /\ ctor[c].pc = "zipcreate"
    /\ cache' = WithZip(cache, "partial", FileNames)
    /\ Goto(c, "zipcopy")
    /\ UNCHANGED <<emb, glast, ghist>>
    /\ UNCHANGED searchVars

\* io.Copy(out, resp.Body): written through the caller's own handle, which
\* no longer names a file once the other caller has removed glove.zip
CtorZipCopy(c) ==
    /\ ctor[c].pc = "zipcopy"
    /\ cache' = IF cache.zip.state = "absent" THEN cache
                ELSE WithZip(cache, "complete", FileNames)
    /\ Goto(c, "zipopen")
    /\ UNCHANGED <<emb, glast, ghist>>
    /\ UNCHANGED searchVars

\* zip.OpenReader(zipPath) and the lookup of the member
CtorZipOpen(c) ==
    /\ ctor[c].pc = "zipopen"
    /\ IF cache.zip.state = "complete" THEN Goto(c, "destcreate")
       ELSE Fail(c, "zipopen")
    /\ UNCHANGED <<cache, emb, glast, ghist>>
    /\ UNCHANGED searchVars

\* os.Create(destPath): the target is there and empty
CtorDestCreate(c) ==
    /\ ctor[c].pc = "destcreate"
    /\ cache' = WithFile(cache, ConcTarget, <<>>)
    /\ Goto(c, "destcopy")
    /\ UNCHANGED <<emb, glast, ghist>>
    /\ UNCHANGED searchVars

\* io.Copy(outFile, rc)
CtorDestCopy(c) ==
    /\ ctor[c].pc = "destcopy"
    /\ cache' = WithFile(cache, ConcTarget, MemberLines)
    /\ Goto(c, "remove")
    /\ UNCHANGED <<emb, glast, ghist>>
    /\ UNCHANGED searchVars

\* os.Remove(zipPath)
CtorRemove(c) ==
    /\ ctor[c].pc = "remove"
    /\ cache' = [cache EXCEPT !.zip = NoZip]
    /\ Goto(c, "load")
    /\ UNCHANGED <<emb, glast, ghist>>
    /\ UNCHANGED searchVars

\* loadGloVeVectors(modelPath) and the return of the embedder
CtorLoad(c) ==
    /\ ctor[c].pc = "load"
    /\ ctor' = [ctor EXCEPT ![c].pc = "done", ![c].raced = BeingWritten(c)]
    /\ emb' = [emb EXCEPT ![c] = Embedder(gloveModels[ConcModel].dim,
                                          cache.files[ConcTarget].lines)]
    /\ UNCHANGED <<cache, glast, ghist>>
    /\ UNCHANGED searchVars

NextCacheConc ==
    \E c \in Callers :
        \/ CtorStat(c)
        \/ CtorGet(c)
        \/ CtorZipCreate(c)
        \/ CtorZipCopy(c)
        \/ CtorZipOpen(c)
        \/ CtorDestCreate(c)
        \/ CtorDestCopy(c)
        \/ CtorRemove(c)
        \/ CtorLoad(c)

SpecCacheConc == InitCacheConc /\ [][NextCacheConc]_vars

----------------------------------------------------------------------------
(* Properties *)

Elems(sq) == { sq[i] : i \in 1..Len(sq) }

NoRepeats(sq) == \A i, j \in 1..Len(sq) : sq[i] = sq[j] => i = j

MockReturned == store = "mock" /\ last.op = "Search" /\ last.status = "ok"

\* C1: on either store, after any BuildFromTools calls, Search returns a list
\* of at most max(topK, 0) tools, whatever the collaborator answers.
C1_SearchLengthBound ==
    last.op = "Search" =>
        /\ last.status \in {"ok", "error"}
        /\ Len(last.result) <= Max(last.topK, 0)

\* C2: when no BuildFromTools call was made, or the most recent one passed an
\* empty catalog, Search returns the empty list and no error for every query
\* and every topK, and the collaborator is not invoked.
C2_EmptyIndexSearch ==
    (last.op = "Search" /\ hist.arg = <<>>) =>
        /\ last.status = "ok"
        /\ last.result = <<>>
        /\ ~last.invoked

C2_Witness ==
    /\ store = "codex"
    /\ last.op = "Search"
    /\ hist.arg = <<>>
    /\ last.topK < 0

\* C3: with a non-empty catalog, Search with topK <= 0 completes normally and
\* returns the empty list with no error (a failure of the collaborator apart).
C3_NonPositiveTopKYieldsEmpty ==
    (last.op = "Search" /\ last.topK <= 0 /\ ~IndexEmpty(tools)) =>
        \/ last.status = "ok" /\ last.result = <<>>
        \/ last.answer = "error"

\* C4: a Search that runs while BuildFromTools runs maps the names against
\* the tool list of the same BuildFromTools call whose payload it sent to the
\* collaborator.
C4_SearchSeesOneBuild ==
    (last.op = "Search" /\ last.answer = "names") =>
        LET m == Marshal(ToolSchemasOf(last.seen))
        IN ~m.err /\ last.payload = Bytes(m.bytes)

\* C5: a BuildFromTools of the External-Rerank store that fails to serialize
\* leaves the tool list and the payload as the last successful build left
\* them, so between calls the payload is the serialization of the tool list.
C5_FailedBuildLeavesIndex ==
    store = "codex" =>
        /\ (last.op = "BuildFromTools" /\ last.status = "error") =>
               (tools = hist.tools /\ schemas = hist.schemas)
        /\ LET m == Marshal(ToolSchemasOf(tools))
           IN \/ ~m.err /\ schemas = Bytes(m.bytes)
              \/ tools = <<>> /\ schemas = NilBytes

\* C6: GetToolCount is the size of the catalog of the most recent successful
\* BuildFromTools, and 0 when none has succeeded.
C6_ToolCountOfLastSuccessfulBuild == GetToolCount = Len(hist.tools)

\* C7: when the collaborator answers with names, the External-Rerank Search
\* returns without error the tools of the names the catalog holds, in the
\* order of the answer; the other names are dropped.
C7_ResultIsKnownNamesInOrder ==
    (store = "codex" /\ last.op = "Search" /\ last.answer = "names") =>
        LET known == SelectSeq(last.names, LAMBDA n : HasName(tools, n))
            r == last.result
        IN /\ last.status = "ok"
           /\ Len(r) = Len(known)
           /\ \A i \in 1..Len(r) : r[i] \in Elems(tools) /\ r[i].Name = known[i]
           /\ Len(r) <= Len(last.names)

C7_Witness ==
    /\ store = "codex"
    /\ last.op = "Search"
    /\ last.answer = "names"
    /\ Len(last.names) = 2
    /\ ~HasName(tools, last.names[1])
    /\ Len(last.result) = 1

\* C8: a Search step, successful or failed, changes neither the tool list
\* nor the payload (hence not GetToolCount).
C8_SearchReadOnly ==
    [][(last.op = "none" /\ last'.op = "Search") =>
          (tools' = tools /\ schemas' = schemas)]_vars

C8_Witness ==
    /\ last.op = "Search"
    /\ last.status = "error"
    /\ Len(tools) >= 2

\* C9: the Lexical Search returns only tools whose score is positive or, for
\* the empty query, any tool; no tool twice; and all of those tools when topK
\* is at least the catalog size.
C9_LexicalEligibility ==
    MockReturned =>
        LET q == last.query
            r == last.result
            eligible == { t \in Elems(tools) : ToolScore(t, q) > 0 \/ q = <<>> }
        IN /\ Elems(r) \subseteq eligible
           /\ NoRepeats(r)
           /\ last.topK >= Len(tools) => Elems(r) = eligible

C9_Witness ==
    /\ MockReturned
    /\ last.query = <<>>
    /\ Len(tools) >= 2
    /\ Len(last.result) = Len(tools)

QueryWords(q) == Elems(Fields(ToLower(q)))

NameHas(t, w) == Contains(ToLower(t.Name), w)

OnlyCategoryHas(t, w) ==
    /\ Contains(ToLower(t.Category), w)
    /\ ~NameHas(t, w)
    /\ ~Contains(ToLower(t.Description), w)

\* t matches no word of q other than w
MatchesNoOther(t, w, q) == \A v \in QueryWords(q) : v # w => WordScore(t, v) = 0

\* y in the result implies x in the result, at an earlier position
RankedBefore(x, y, r) ==
    \A j \in 1..Len(r) : r[j] = y => \E i \in 1..(j - 1) : r[i] = x

\* non-increasing scores, and a top-K selection of the eligible tools
SortedTopK(r, q, k) ==
    LET eligible == { t \in Elems(tools) : ToolScore(t, q) > 0 \/ q = <<>> }
    IN /\ \A i, j \in 1..Len(r) : i < j => ToolScore(r[i], q) >= ToolScore(r[j], q)
       /\ Elems(r) \subseteq eligible
       /\ NoRepeats(r)
       /\ Len(r) = Min(Max(k, 0), Cardinality(eligible))
       /\ \A t \in eligible \ Elems(r) : \A x \in Elems(r) :
              ToolScore(t, q) <= ToolScore(x, q)

\* C10 as stated: the result is sorted by score, is a top-K selection, and a
\* tool whose name contains a query word comes before every tool that matches
\* that word only in its category.
C10_NameBeforeCategoryAsStated ==
    MockReturned =>
        /\ SortedTopK(last.result, last.query, last.topK)
        /\ \A w \in QueryWords(last.query) : \A x, y \in Elems(tools) :
               (NameHas(x, w) /\ OnlyCategoryHas(y, w)) => RankedBefore(x, y, last.result)

\* C10 amended: the same, for a tool that matches that word only in its
\* category and matches no other word of the query.
C10_SortedTopKNameBeforeCategory ==
    MockReturned =>
        /\ SortedTopK(last.result, last.query, last.topK)
        /\ \A w \in QueryWords(last.query) : \A x, y \in Elems(tools) :
               (NameHas(x, w) /\ OnlyCategoryHas(y, w) /\ MatchesNoOther(y, w, last.query))
                   => RankedBefore(x, y, last.result)

\* the sort moved a name match ahead of a category-only match that the
\* catalog lists first
C10_Witness ==
    /\ MockReturned
    /\ \E w \in QueryWords(last.query) : \E i, j \in 1..Len(tools) :
           /\ i < j
           /\ OnlyCategoryHas(tools[i], w)
           /\ MatchesNoOther(tools[i], w, last.query)
           /\ NameHas(tools[j], w)
           /\ \E n \in 1..Len(last.result) : last.result[n] = tools[i]

\* the target file of the preset the most recent construction was called for
LastTarget == gloveModels[glast.model].filename

\* C11: a construction that starts with the preset's target file present in
\* the cache performs no network fetch, and once a construction of a preset
\* has succeeded every later construction of that preset fetches zero times.
C11_CachedConstructionFetchesNothing ==
    glast.op = "New" =>
        /\ glast.present => glast.fetched = 0
        /\ glast.prior => glast.fetched = 0

C11_Witness ==
    /\ glast.op = "New"
    /\ glast.prior
    /\ glast.present
    /\ glast.err = ""
    /\ glast.fetched = 0

\* C12: when the download answers with a status other than success, or the
\* archive it answers with lacks the preset's member, the construction
\* returns an error and no embedder, and the target file is still absent
\* from the cache, so that the next construction downloads again.
C12_FailedDownloadLeavesNoTarget ==
    (/\ glast.op = "New"
     /\ glast.fetched = 1
     /\ glast.fault # "get"
     /\ (glast.status # StatusOK \/ LastTarget \notin glast.archive))
    => /\ glast.err # ""
       /\ emb = NoEmbedder
       /\ ~cache.files[LastTarget].exists

C12_Witness ==
    /\ glast.op = "New"
    /\ glast.fetched = 1
    /\ glast.fault = "none"
    /\ glast.status = StatusOK
    /\ LastTarget \notin glast.archive
    /\ glast.err = "member"
    /\ ~cache.files[LastTarget].exists

\* C18: whatever step the construction attempts so far failed at, a file is
\* at a preset's target path only if its extraction completed, so that no
\* later construction loads a truncated file as the cached model.
C18_TargetOnlyIfExtracted ==
    \A f \in FileNames : cache.files[f].exists => cache.files[f].lines = MemberLines

\* no token of the text has a vector: every run of letters and digits of the
\* lowercased text is one character long, a stopword, or not in the vocabulary
NoTokenFound(e, text) ==
    LET runs == FieldsFunc(ToLower(text))
    IN \A i \in 1..Len(runs) :
          \/ Len(runs[i]) <= 1
          \/ runs[i] \in stopWords
          \/ runs[i] \notin DOMAIN e.vectors

\* C13: for every text in which no token is found in the vocabulary (empty
\* text, only stopwords or one-character tokens, only tokens out of the
\* vocabulary), Generate returns without error a vector of length
\* Dimension() whose every component is zero.
C13_NoTokenFoundYieldsZeroVector ==
    (glast.op = "Generate" /\ NoTokenFound(emb, glast.text))
    => /\ glast.status = "ok"
       /\ Len(glast.vec.num) = Dimension(emb)
       /\ glast.vec.den # 0
       /\ \A i \in 1..Len(glast.vec.num) : glast.vec.num[i] = 0

C13_Witness ==
    /\ glast.op = "Generate"
    /\ NoTokenFound(emb, glast.text)
    /\ GetVocabularySize(emb) > 0
    /\ glast.words # <<>>
    /\ glast.status = "ok"
    /\ Len(glast.vec.num) = Dimension(emb)

\* C14: whatever lines the vector file holds, lines with fewer numeric fields
\* than the dimension and fields that do not parse included, Generate of any
\* text completes and returns a vector of length Dimension().
C14_GenerateNeverFails ==
    glast.op = "Generate"
    => /\ glast.status = "ok"
       /\ Len(glast.vec.num) = Dimension(emb)

\* the number of word occurrences of q that the lowercased field contains
Occurrences(field, q) ==
    LET w == Fields(ToLower(q))
    IN Cardinality({ i \in 1..Len(w) : Contains(ToLower(field), w[i]) })

WeightedScore(t, q) ==
    3 * Occurrences(t.Name, q) + 2 * Occurrences(t.Description, q)
    + Occurrences(t.Category, q)

\* C15: in the Lexical strategy the score of a tool for a query is the sum,
\* over every occurrence of a whitespace-delimited lowercased word of the
\* query, of 3 if the lowercased name contains the word, 2 if the lowercased
\* description does and 1 if the lowercased category does; a tool left out
\* of the scored list has the score 0.
C15_ScoreIsWeightedSum ==
    (store = "mock" /\ last.op = "Search" /\ ~IndexEmpty(tools))
    => /\ \A i \in 1..Len(last.scored) :
              last.scored[i].score = WeightedScore(last.scored[i].tool, last.query)
       /\ \A k \in 1..Len(tools) :
              (\A i \in 1..Len(last.scored) : last.scored[i].tool # tools[k])
              => WeightedScore(tools[k], last.query) = 0

C15_Witness ==
    /\ store = "mock"
    /\ last.op = "Search"
    /\ Len(Fields(ToLower(last.query))) = 2
    /\ \E i \in 1..Len(last.scored) :
          /\ last.scored[i].score = 12
          /\ Occurrences(last.scored[i].tool.Name, last.query) = 2
          /\ Occurrences(last.scored[i].tool.Description, last.query) = 2
          /\ Occurrences(last.scored[i].tool.Category, last.query) = 2
    /\ \E k \in 1..Len(tools) :
          \A i \in 1..Len(last.scored) : last.scored[i].tool # tools[k]

\* the position of a tool in the retained catalog
CatalogIndex(t) == CHOOSE k \in 1..Len(tools) : tools[k] = t

\* C16: in the Lexical strategy, returned tools of equal score appear in
\* their original catalog order.
C16_EqualScoresInCatalogOrder ==
    MockReturned =>
        \A i, j \in 1..Len(last.result) :
            (i < j /\ ToolScore(last.result[i], last.query)
                      = ToolScore(last.result[j], last.query))
            => CatalogIndex(last.result[i]) < CatalogIndex(last.result[j])

\* C17: of the callers constructing the embedder of one preset over one
\* cache directory at the same time, with the target file absent, only one
\* downloads, and none loads from a target file that another caller has
\* created and is still copying into.
C17_OneDownloadNoLoadWhileWritten ==
    /\ Cardinality({ c \in Callers : ctor[c].fetched = 1 }) <= 1
    /\ \A c \in Callers : ~ctor[c].raced

====
